---- MODULE Spec2Model ----
(***************************************************************************)
(* Model of src/script.js: the front-end behaviours of the site.  The      *)
(* script holds two generations of nearly every feature: class-based       *)
(* controllers created by the first DOMContentLoaded listener (lines       *)
(* 101-366) and init functions called by the second one (lines 380-585),   *)
(* plus top-level code (lines 588-689).  Both generations act on the same  *)
(* DOM elements, so the model keeps one copy of the DOM state and runs     *)
(* every registered listener of an event, in registration order.           *)
(***************************************************************************)
EXTENDS Integers, Sequences, FiniteSets, TLC

\* ------------------------------------------------------------------ bounds
MaxWidth == 2        \* original content widths of #logos range over 1..MaxWidth
MaxLeaked == 2       \* frame loops of LogoSliderController left running at once
MaxTarget == 2       \* small data-width targets range over 0..MaxTarget
NumFaq == 3          \* .faq-item elements of the FAQ section
MaxHeight == 1       \* scrollHeight of an answer ranges over 0..MaxHeight
TickMs == 150        \* milliseconds by which one step of the clock advances the time
NumReveal == 2       \* elements matched by the reveal selector
MaxQueued == 3       \* entries an observer holds before its callback receives them
NumItems == 2        \* .gallery-item elements
NumPhotos == 3       \* .about-card-img-container elements of the listing page

\* ------------------------------------------------- CONFIG (lines 4-51)
speed == 1           \* CONFIG.animations.scroll.speed
stepThreshold == 50  \* animateProgressBar: targetValue > 50 ? 2 : 1
wait == 300          \* initInputValidation: debounce(..., 300)

MenuEls == {"bar", "menu", "overlay", "closeBar"}

VARIABLES
  pc,                \* "loaded" (script evaluated), "dcl1" (first DOMContentLoaded listener ran), "ready"
  present,           \* the elements the document holds
  wired,             \* the listeners / observers that got registered
  faults,            \* the places where a listener threw
  lastEvent,         \* the last event that was dispatched
  lastTarget,        \* the element it was dispatched on, as its index among its kind (0: none recorded)
  \* menu
  menuOpen,          \* .menu carries class "open"
  overlayOpen,       \* .overlay carries class "overlay-open"
  \* marquee
  hidden,            \* document.hidden
  W,                 \* width of the original content of #logos
  copies,            \* copies of the original content held by #logos
  thisScrollAmount,  \* LogoSliderController.scrollAmount
  scrollAmount,      \* initLogoSlider: scrollAmount
  isAnimating,       \* initLogoSlider: isAnimating
  halfWidth,         \* initLogoSlider: halfWidth
  transform,         \* translateX of #logos: <<>> when never set, else <<px>>
  rafQueue,          \* outstanding animation-frame requests of the marquee, oldest first
  \* progress bars
  bar,               \* per .progress-bar: its attributes, children and counting closures
  scrollTimeout,     \* the scroll throttle: "null", "pending" (timer set), "fired" (id of a timer that ran)
  \* contact form
  value,             \* input.value of #name, #phone, #email, #message
  termsChecked,      \* #terms.checked
  err,               \* per input: the .error-message elements that follow it, nearest first
  termsErr,          \* the .error-message elements that follow #terms
  timeout,           \* per input: the remaining delays (ms) of the pending timers its debounced
                     \* listener set, oldest first; the closure's timeout is the newest
  sinceInput,        \* per input: ms since its last input event, counted up to wait (-1: no event yet)
  validations,       \* per input: debounced validations run since its last input event
  lastResult,        \* per input: outcome of its most recent validation ("none", "pass", "fail")
  submitFormCalled,  \* the last submit event invoked submitForm
  \* FAQ
  faq,               \* per .faq-item: style.maxHeight and class of the answer, transform of the icon
  \* scroll reveal
  inView,            \* per reveal element: the browser computes isIntersecting for it
  classList,         \* per reveal element: the fade-in classes it carries
  observing,         \* per observer ("C": ScrollAnimationController, "F": initScrollAnimations): its targets
  previous,          \* per observer and target: the isIntersecting it last queued ("none", "in", "out")
  queued,            \* per observer: the entries its callback has not received yet
  \* gallery
  category,          \* per .gallery-item: dataset.category
  active,            \* the .filter buttons that carry class "filter-active"
  display,           \* per .gallery-item: style.display (<<>> when never set)
  lastFilter,        \* the .filter button clicked last (0: none yet)
  \* member photo
  storage,           \* localStorage "selectedImage": <<>> when absent, else <<path>>
  imgSrc,            \* src of .member-details-profile-img
  lastClicked        \* idx of the .about-card-img-container clicked last (-1: none yet)

pageVars == <<pc, present, wired, faults, lastEvent, lastTarget>>
menuVars == <<menuOpen, overlayOpen>>
marqueeVars == <<hidden, W, copies, thisScrollAmount, scrollAmount, isAnimating,
                 halfWidth, transform, rafQueue>>
progressVars == <<bar, scrollTimeout>>
formVars == <<value, termsChecked, err, termsErr, timeout, submitFormCalled,
             sinceInput, validations, lastResult>>
revealVars == <<inView, classList, observing, previous, queued>>
galleryVars == <<category, active, display, lastFilter>>
memberVars == <<storage, imgSrc, lastClicked>>
vars == <<pageVars, menuVars, marqueeVars, progressVars, formVars, faq, revealVars, galleryVars, memberVars>>

Abs(n) == IF n < 0 THEN -n ELSE n

RemoveAll(q, x) == SelectSeq(q, LAMBDA e : e # x)

Count(q, x) == Len(SelectSeq(q, LAMBDA e : e = x))

\* ======================================================== mobile menu
\* MobileMenuController constructor: wires only when all four elements exist.
MobileMenuController(p) == IF MenuEls \subseteq p THEN {"C.menu"} ELSE {}

\* initMobileMenu: no guard; addEventListener on a missing element throws,
\* after the listeners before it were attached.
initMobileMenu(p) ==
  IF "bar" \notin p THEN [w |-> {}, thrown |-> TRUE]
  ELSE IF "overlay" \notin p THEN [w |-> {"F.bar"}, thrown |-> TRUE]
  ELSE IF "closeBar" \notin p THEN [w |-> {"F.bar", "F.overlay"}, thrown |-> TRUE]
  ELSE [w |-> {"F.bar", "F.overlay", "F.closeBar"}, thrown |-> FALSE]

\* classList.toggle on .menu and .overlay; s = [menu, overlay, thrown].
\* p is the set of elements present: a missing element is null and
\* the access to its classList throws, leaving the rest of the body undone.
\* (toggleMenuMut: toggleMenu without its second statement.)
toggleMenuMut(s, p) ==
  IF "menu" \notin p THEN [s EXCEPT !.thrown = TRUE]
  ELSE [s EXCEPT !.menu = ~s.menu]

toggleMenu(s, p) ==
  IF "menu" \notin p THEN [s EXCEPT !.thrown = TRUE]
  ELSE IF "overlay" \notin p THEN [s EXCEPT !.menu = ~s.menu, !.thrown = TRUE]
  ELSE [s EXCEPT !.menu = ~s.menu, !.overlay = ~s.overlay]

closeMenu(s, p) ==
  IF "menu" \notin p THEN [s EXCEPT !.thrown = TRUE]
  ELSE IF "overlay" \notin p THEN [s EXCEPT !.menu = FALSE, !.thrown = TRUE]
  ELSE [s EXCEPT !.menu = FALSE, !.overlay = FALSE]

MenuState == [menu |-> menuOpen, overlay |-> overlayOpen, thrown |-> FALSE]

\* The listeners of a click run in registration order: the controller's
\* (first DOMContentLoaded listener), then initMobileMenu's; c and f tell
\* whether each is registered.
toggleListeners(c, f, s, p) ==
  LET s1 == IF c THEN toggleMenu(s, p) ELSE s IN
  IF f THEN toggleMenu(s1, p) ELSE s1

closeListeners(c, f, s, p) ==
  LET s1 == IF c THEN closeMenu(s, p) ELSE s IN
  IF f THEN closeMenu(s1, p) ELSE s1

SetMenu(s, site) ==
  /\ menuOpen' = s.menu
  /\ overlayOpen' = s.overlay
  /\ faults' = IF s.thrown THEN faults \cup {site} ELSE faults

\* click on .bar-icon: the controller's listener, then initMobileMenu's.
ClickBar ==
  /\ pc = "ready"
  /\ "bar" \in present
  /\ SetMenu(toggleListeners("C.menu" \in wired, "F.bar" \in wired, MenuState, present), "toggleMenu")
  /\ lastEvent' = "clickBar"
  /\ lastTarget' = 0
  /\ UNCHANGED <<pc, present, wired, marqueeVars, progressVars, formVars, faq, revealVars, galleryVars, memberVars>>

ClickOverlay ==
  /\ pc = "ready"
  /\ "overlay" \in present
  /\ SetMenu(closeListeners("C.menu" \in wired, "F.overlay" \in wired, MenuState, present), "closeMenu")
  /\ lastEvent' = "clickOverlay"
  /\ lastTarget' = 0
  /\ UNCHANGED <<pc, present, wired, marqueeVars, progressVars, formVars, faq, revealVars, galleryVars, memberVars>>

ClickClose ==
  /\ pc = "ready"
  /\ "closeBar" \in present
  /\ SetMenu(closeListeners("C.menu" \in wired, "F.closeBar" \in wired, MenuState, present), "closeMenu")
  /\ lastEvent' = "clickClose"
  /\ lastTarget' = 0
  /\ UNCHANGED <<pc, present, wired, marqueeVars, progressVars, formVars, faq, revealVars, galleryVars, memberVars>>

\* ======================================================== logo marquee
\* The marquee state the two implementations share the container of.
\* rafQueue entries: "Ccur" the request of the frame loop that
\* LogoSliderController.stopAnimation cancels, "Cold" the request of a loop
\* started earlier and no longer referenced, "F" initLogoSlider's rafId.
MarqueeState ==
  [thisScrollAmount |-> thisScrollAmount, scrollAmount |-> scrollAmount,
   isAnimating |-> isAnimating, transform |-> transform, q |-> rafQueue,
   copies |-> copies, halfWidth |-> halfWidth]

SetMarquee(m) ==
  /\ thisScrollAmount' = m.thisScrollAmount
  /\ scrollAmount' = m.scrollAmount
  /\ isAnimating' = m.isAnimating
  /\ transform' = m.transform
  /\ rafQueue' = m.q
  /\ copies' = m.copies
  /\ halfWidth' = m.halfWidth

\* container.scrollWidth: the width of the content the container holds.
scrollWidth(m) == m.copies * W

Retag(q) == [i \in 1..Len(q) |-> IF q[i] = "Ccur" THEN "Cold" ELSE q[i]]

\* The callback LogoSliderController.startAnimation passes to requestFrame.
LogoSliderCallback(m) ==
  LET a == m.thisScrollAmount - speed IN
  [m EXCEPT !.transform = <<a>>,
            !.thisScrollAmount = IF 2 * Abs(a) >= scrollWidth(m) THEN 0 ELSE a]

\* LogoSliderController.startAnimation with Utils.animation.requestFrame:
\* starts a new loop (callback, then a frame request) and overwrites
\* this.stopAnimation; the loop it referenced before is not cancelled.
LogoSliderStart(m) ==
  LET m1 == LogoSliderCallback(m) IN
  [m1 EXCEPT !.q = Append(Retag(m1.q), "Ccur")]

\* this.stopAnimation?.(): cancelAnimationFrame of the current loop's rafId.
LogoSliderStop(m) == [m EXCEPT !.q = RemoveAll(m.q, "Ccur")]

\* LogoSliderController.init
LogoSliderInit(m) == LogoSliderStart([m EXCEPT !.copies = m.copies + m.copies])

\* LogoSliderController.handleVisibilityChange listener
LogoSliderVisibility(m, h) == IF h THEN LogoSliderStop(m) ELSE LogoSliderStart(m)

\* initLogoSlider: scrollLogos
\* (scrollLogosMut: the reset test with > in place of >=.)
scrollLogosMut(m) ==
  IF ~m.isAnimating THEN m
  ELSE LET a == m.scrollAmount - 1 IN
       [m EXCEPT !.transform = <<a>>,
                 !.scrollAmount = IF Abs(a) > m.halfWidth THEN 0 ELSE a,
                 !.q = Append(m.q, "F")]

scrollLogos(m) ==
  IF ~m.isAnimating THEN m
  ELSE LET a == m.scrollAmount - 1 IN
       [m EXCEPT !.transform = <<a>>,
                 !.scrollAmount = IF Abs(a) >= m.halfWidth THEN 0 ELSE a,
                 !.q = Append(m.q, "F")]

\* initLogoSlider: startAnimation
startAnimation(m) ==
  IF m.isAnimating THEN m ELSE scrollLogos([m EXCEPT !.isAnimating = TRUE])

\* initLogoSlider: stopAnimation
stopAnimation(m) == [m EXCEPT !.isAnimating = FALSE, !.q = RemoveAll(m.q, "F")]

\* initLogoSlider: the visibilitychange listener
logoVisibility(m, h) == IF h THEN stopAnimation(m) ELSE startAnimation(m)

\* initLogoSlider body, #logos present
initLogoSlider(m) ==
  LET c == 2 * m.copies IN
  startAnimation([m EXCEPT !.copies = c, !.halfWidth = (c * W) \div 2,
                           !.scrollAmount = 0, !.isAnimating = FALSE])

\* One animation frame: every callback requested before the frame runs once,
\* oldest first; the requests they make are for the next frame.
RECURSIVE RunFrame(_, _)
RunFrame(todo, m) ==
  IF todo = <<>> THEN m
  ELSE LET e == Head(todo)
           m1 == IF e = "F" THEN scrollLogos(m)
                 ELSE LET c == LogoSliderCallback(m) IN [c EXCEPT !.q = Append(c.q, e)]
       IN RunFrame(Tail(todo), m1)

\* ======================================================== progress bars
\* The .progress-bar elements in document order.
BarOrder == <<"bar1">>

Bars == {BarOrder[i] : i \in 1..Len(BarOrder)}

\* data-width values: the small ones, and those around the step threshold.
Targets == (0..MaxTarget) \cup {stepThreshold, stepThreshold + 1, stepThreshold + 2}

\* `${count}%`
Pct(n) == <<n, "%">>

\* A bar before any script touched it: T = parseInt(dataset.width),
\* kids = which of .fill / .progress-text it holds.
NewBar(T, kids) ==
  [target |-> T, kids |-> kids, visible |-> FALSE, observed |-> FALSE,
   fillWidth |-> <<>>, opacity |-> <<>>, text |-> <<>>,
   iCount |-> 0, iActive |-> FALSE, iLog |-> <<>>,
   rCount |-> 0, rPending |-> FALSE, rLog |-> <<>>]

\* ProgressBarController.animateProgressBar up to setInterval; the counter
\* and timer of its closure are iCount / iActive, iLog the values it wrote.
animateProgressBar(r) ==
  IF "fill" \notin r.kids THEN [b |-> r, thrown |-> TRUE]
  ELSE IF "text" \notin r.kids
    THEN [b |-> [r EXCEPT !.fillWidth = Pct(r.target)], thrown |-> TRUE]
  ELSE [b |-> [r EXCEPT !.fillWidth = Pct(r.target), !.opacity = <<1>>,
                        !.iCount = 0, !.iActive = TRUE],
        thrown |-> FALSE]

increment(T) == IF T > stepThreshold THEN 2 ELSE 1

\* The setInterval callback of animateProgressBar.
\* (intervalCallbackMut: the callback without its stop branch.)
intervalCallbackMut(r) ==
  IF r.iCount >= r.target THEN r
  ELSE LET c == r.iCount + increment(r.target) IN
       [r EXCEPT !.iCount = c, !.text = Pct(c), !.iLog = Append(@, c)]

intervalCallback(r) ==
  IF r.iCount >= r.target
    THEN [r EXCEPT !.text = Pct(r.target), !.iLog = Append(@, r.target),
                   !.iActive = FALSE]
  ELSE LET c == r.iCount + increment(r.target) IN
       [r EXCEPT !.iCount = c, !.text = Pct(c), !.iLog = Append(@, c)]

\* ProgressBarController.handleIntersection over the intersecting entries;
\* a throw inside forEach leaves the rest of the entries unhandled.
RECURSIVE handleIntersection(_, _)
handleIntersection(entries, bs) ==
  IF entries = <<>> THEN [bars |-> bs, thrown |-> FALSE]
  ELSE LET b == Head(entries)
           a == animateProgressBar(bs[b])
       IN IF a.thrown THEN [bars |-> [bs EXCEPT ![b] = a.b], thrown |-> TRUE]
          ELSE handleIntersection(Tail(entries),
                                  [bs EXCEPT ![b] = [a.b EXCEPT !.observed = FALSE]])

\* animateProgressBars: animateCount
animateCount(r) ==
  LET r1 == [r EXCEPT !.text = Pct(r.rCount), !.rLog = Append(@, r.rCount)] IN
  IF r.rCount < r.target
    THEN [r1 EXCEPT !.rCount = @ + 1, !.rPending = TRUE]
  ELSE [r1 EXCEPT !.rPending = FALSE]

\* animateProgressBars: the body run for one bar above the threshold.
animateVisibleBar(r) ==
  LET v == [r EXCEPT !.visible = TRUE] IN
  IF "fill" \notin r.kids THEN [b |-> v, thrown |-> TRUE]
  ELSE IF "text" \notin r.kids
    THEN [b |-> [v EXCEPT !.fillWidth = Pct(r.target)], thrown |-> TRUE]
  ELSE [b |-> animateCount([v EXCEPT !.fillWidth = Pct(r.target), !.opacity = <<1>>,
                                     !.rCount = 0]),
        thrown |-> FALSE]

\* animateProgressBars over the bars matched by .progress-bar:not(.visible)
\* whose top is above the threshold.
RECURSIVE animateProgressBars(_, _)
animateProgressBars(todo, bs) ==
  IF todo = <<>> THEN [bars |-> bs, thrown |-> FALSE]
  ELSE LET b == Head(todo)
           a == animateVisibleBar(bs[b])
       IN IF a.thrown THEN [bars |-> [bs EXCEPT ![b] = a.b], thrown |-> TRUE]
          ELSE animateProgressBars(Tail(todo), [bs EXCEPT ![b] = a.b])

Pick(order, S) == SelectSeq(order, LAMBDA b : b \in S)

\* IntersectionObserver callback of ProgressBarController; E = the observed
\* bars reported as intersecting.
ProgressIntersect ==
  /\ pc = "ready"
  /\ "C.progress" \in wired
  /\ \E E \in SUBSET {b \in DOMAIN bar : bar[b].observed} :
       /\ E # {}
       /\ LET r == handleIntersection(Pick(BarOrder, E), bar) IN
          /\ bar' = r.bars
          /\ faults' = IF r.thrown THEN faults \cup {"animateProgressBar"} ELSE faults
  /\ lastEvent' = "intersect"
  /\ lastTarget' = 0
  /\ UNCHANGED <<pc, present, wired, menuVars, marqueeVars, scrollTimeout, formVars, faq, revealVars, galleryVars, memberVars>>

\* setInterval tick of one bar's counting closure.
IntervalTick ==
  /\ \E b \in DOMAIN bar :
       /\ bar[b].iActive
       /\ bar' = [bar EXCEPT ![b] = intervalCallback(bar[b])]
  /\ lastEvent' = "interval"
  /\ lastTarget' = 0
  /\ UNCHANGED <<pc, present, wired, faults, menuVars, marqueeVars, scrollTimeout, formVars, faq, revealVars, galleryVars, memberVars>>

\* scroll listener (line 617): starts the 50 ms timer unless one is pending.
Scroll ==
  /\ pc = "ready"
  /\ "T.scroll" \in wired
  /\ scrollTimeout' = IF scrollTimeout = "null" THEN "pending" ELSE scrollTimeout
  /\ lastEvent' = "scroll"
  /\ lastTarget' = 0
  /\ UNCHANGED <<pc, present, wired, faults, menuVars, marqueeVars, bar, formVars, faq, revealVars, galleryVars, memberVars>>

\* The throttle timer fires; N = the bars whose top is above the threshold.
\* A throw in animateProgressBars skips scrollTimeout = null.
ScrollTimer ==
  /\ scrollTimeout = "pending"
  /\ \E N \in SUBSET DOMAIN bar :
       LET r == animateProgressBars(Pick(BarOrder, {b \in N : ~bar[b].visible}), bar) IN
       /\ bar' = r.bars
       /\ faults' = IF r.thrown THEN faults \cup {"animateProgressBars"} ELSE faults
       /\ scrollTimeout' = IF r.thrown THEN "fired" ELSE "null"
  /\ lastEvent' = "scrollTimer"
  /\ lastTarget' = 0
  /\ UNCHANGED <<pc, present, wired, menuVars, marqueeVars, formVars, faq, revealVars, galleryVars, memberVars>>

\* ======================================================== contact form
\* CONFIG.validation.patterns, in key order.
Fields == <<"name", "phone", "email", "message">>

FieldSet == {Fields[i] : i \in 1..Len(Fields)}

Digits == {"0", "1", "2", "3", "4", "5", "6", "7", "8", "9"}

WhiteSpace == {" ", "\t", "\n", "\r"}

LineTerminators == {"\n", "\r"}

\* /.+/ : some character other than a line terminator
dotPlus(v) == \E i \in 1..Len(v) : v[i] \notin LineTerminators

\* /^\+?[1-9]\d{1,14}$/
phoneRegex(v) ==
  LET d == IF Len(v) > 0 /\ v[1] = "+" THEN Tail(v) ELSE v IN
  /\ Len(d) >= 2
  /\ Len(d) <= 15
  /\ d[1] \in Digits \ {"0"}
  /\ \A i \in 2..Len(d) : d[i] \in Digits

\* /^[^@\s]+@[^@\s]+\.[^@\s]+$/
emailRegex(v) ==
  \E i \in 2..Len(v), j \in 4..Len(v) :
    /\ i + 1 < j
    /\ j < Len(v)
    /\ v[i] = "@"
    /\ v[j] = "."
    /\ \A k \in (1..Len(v)) \ {i} : v[k] \notin WhiteSpace \cup {"@"}

regexTest(f, v) ==
  CASE f = "name" -> dotPlus(v)
    [] f = "phone" -> phoneRegex(v)
    [] f = "email" -> emailRegex(v)
    [] f = "message" -> dotPlus(v)

message(f) ==
  CASE f = "name" -> "Name is required"
    [] f = "phone" -> "Please enter a valid phone number"
    [] f = "email" -> "Please enter a valid email address"
    [] f = "message" -> "Message is required"

\* The name of the debounced input listener of a field.
inputListener(f) ==
  CASE f = "name" -> "C.input.name"
    [] f = "phone" -> "C.input.phone"
    [] f = "email" -> "C.input.email"
    [] f = "message" -> "C.input.message"

\* FormValidationController.toggleError on the elements following the input.
\* (toggleErrorMut: a new element on every call.)
toggleErrorMut(e, show, msg) ==
  <<[text |-> msg, display |-> IF show THEN "block" ELSE "none"]>> \o e

toggleError(e, show, msg) ==
  LET e1 == IF e = <<>> THEN <<[text |-> "", display |-> ""]>> ELSE e IN
  [e1 EXCEPT ![1] = [text |-> msg, display |-> IF show THEN "block" ELSE "none"]]

\* FormValidationController.validateInput: the error elements of field f after it.
validateInput(f, v, e) == toggleError(e, ~regexTest(f, v), message(f))

\* FormValidationController.handleSubmit: Array.prototype.every stops at the
\* first field whose callback returns false.
\* ran: the fields validateInput was called for.
\* (handleSubmitMut: isValid decided by the first field alone.)
handleSubmitMut(fs, vals, e, p) ==
  LET f == Head(fs) IN
  [err |-> [e EXCEPT ![f] = validateInput(f, vals[f], e[f])],
   isValid |-> regexTest(f, vals[f]), ran |-> {f}]

RECURSIVE handleSubmit(_, _, _, _)
handleSubmit(fs, vals, e, p) ==
  IF fs = <<>> THEN [err |-> e, isValid |-> TRUE, ran |-> {}]
  ELSE LET f == Head(fs) IN
       IF f \notin p THEN handleSubmit(Tail(fs), vals, e, p)
       ELSE LET e1 == [e EXCEPT ![f] = validateInput(f, vals[f], e[f])]
                r == handleSubmit(Tail(fs), vals, e1, p)
            IN IF regexTest(f, vals[f]) THEN [r EXCEPT !.ran = @ \cup {f}]
               ELSE [err |-> e1, isValid |-> FALSE, ran |-> {f}]

\* The submit listener of lines 628-661: after preventDefault and five
\* getElementById calls it calls validateInput, which is no binding of the
\* script's scope (only a method of FormValidationController): the call
\* throws a ReferenceError and the rest of the listener never runs.
contactFormSubmit == [thrown |-> TRUE]

\* Sample values of the inputs.
Values(f) ==
  CASE f = "name" -> {<<>>, <<"A">>}
    [] f = "phone" -> {<<"+", "1", "2">>, <<"0", "1">>}
    [] f = "email" -> {<<"a", "@", "b">>, <<"a", "@", "b", ".", "c">>}
    [] f = "message" -> {<<"\n">>, <<"h", "i">>}

\* Utils.animation.debounce on the pending timers ts of one debounced
\* listener: clearTimeout(timeout) cancels the newest one, if it is pending.
clearTimeout(ts) == IF ts = <<>> THEN ts ELSE SubSeq(ts, 1, Len(ts) - 1)

\* executedFunction: clearTimeout(timeout); timeout = setTimeout(later, wait)
\* (debounceMut: executedFunction without its clearTimeout.)
debounceMut(ts) == Append(ts, wait)

debounce(ts) == Append(clearTimeout(ts), wait)

\* later: the oldest timer ran; clearTimeout(timeout), then func.
later(ts) == clearTimeout(Tail(ts))

Outcome(f, v) == IF regexTest(f, v) THEN "pass" ELSE "fail"

Min(a, b) == IF a < b THEN a ELSE b

Max(a, b) == IF a < b THEN b ELSE a

\* submit event of #contactForm: the top-level listener (registered while
\* the script is evaluated), then the controller's.
Submit ==
  /\ pc = "ready"
  /\ "contactForm" \in present
  /\ LET r == IF "C.form" \in wired THEN handleSubmit(Fields, value, err, present)
              ELSE [err |-> err, isValid |-> FALSE, ran |-> {}]
     IN /\ err' = r.err
        /\ submitFormCalled' = r.isValid
        /\ lastResult' = [f \in FieldSet |->
                            IF f \in r.ran THEN Outcome(f, value[f]) ELSE lastResult[f]]
  /\ faults' = IF "T.submit" \in wired /\ contactFormSubmit.thrown
               THEN faults \cup {"contactForm.submit"} ELSE faults
  /\ lastEvent' = "submit"
  /\ lastTarget' = 0
  /\ UNCHANGED <<pc, present, wired, menuVars, marqueeVars, progressVars,
                 value, termsChecked, termsErr, timeout, sinceInput, validations, faq,
                 revealVars, galleryVars, memberVars>>

\* input event on a field: the user changed its value; the debounced
\* listener clears its timer and sets a new one.
InputEvent ==
  /\ pc = "ready"
  /\ \E f \in FieldSet \cap present :
       /\ \E v \in Values(f) : value' = [value EXCEPT ![f] = v]
       /\ timeout' = [timeout EXCEPT ![f] =
                        IF inputListener(f) \in wired THEN debounce(@) ELSE @]
       /\ sinceInput' = [sinceInput EXCEPT ![f] = 0]
       /\ validations' = [validations EXCEPT ![f] = 0]
  /\ lastEvent' = "input"
  /\ lastTarget' = 0
  /\ UNCHANGED <<pc, present, wired, faults, menuVars, marqueeVars, progressVars,
                 termsChecked, err, termsErr, submitFormCalled, lastResult, faq,
                 revealVars, galleryVars, memberVars>>

\* The user ticks or unticks #terms.
ToggleTerms ==
  /\ pc = "ready"
  /\ "terms" \in present
  /\ termsChecked' = ~termsChecked
  /\ lastEvent' = "terms"
  /\ lastTarget' = 0
  /\ UNCHANGED <<pc, present, wired, faults, menuVars, marqueeVars, progressVars,
                 value, err, termsErr, timeout, submitFormCalled,
                 sinceInput, validations, lastResult, faq,
                 revealVars, galleryVars, memberVars>>

\* TickMs pass while some debounce timer is counting down.
Tick ==
  /\ \E f \in FieldSet : \E k \in 1..Len(timeout[f]) : timeout[f][k] > 0
  /\ timeout' = [f \in FieldSet |->
                   [k \in 1..Len(timeout[f]) |-> Max(0, timeout[f][k] - TickMs)]]
  /\ sinceInput' = [f \in FieldSet |->
                      IF sinceInput[f] < 0 THEN sinceInput[f]
                      ELSE Min(wait, sinceInput[f] + TickMs)]
  /\ lastEvent' = "tick"
  /\ lastTarget' = 0
  /\ UNCHANGED <<pc, present, wired, faults, menuVars, marqueeVars, progressVars,
                 value, termsChecked, err, termsErr, submitFormCalled,
                 validations, lastResult, faq,
                 revealVars, galleryVars, memberVars>>

\* Utils.animation.debounce: later() of a field's timer whose delay is over.
DebounceFire ==
  /\ \E f \in FieldSet :
       /\ timeout[f] # <<>>
       /\ Head(timeout[f]) = 0
       /\ timeout' = [timeout EXCEPT ![f] = later(@)]
       /\ err' = [err EXCEPT ![f] = validateInput(f, value[f], err[f])]
       /\ lastResult' = [lastResult EXCEPT ![f] = Outcome(f, value[f])]
       /\ validations' = [validations EXCEPT ![f] = Min(2, @ + 1)]
       /\ lastTarget' = 0
  /\ lastEvent' = "debounce"
  /\ UNCHANGED <<pc, present, wired, faults, menuVars, marqueeVars, progressVars,
                 value, termsChecked, termsErr, submitFormCalled, sinceInput, faq,
                 revealVars, galleryVars, memberVars>>

\* ======================================================== FAQ accordion
\* Every .faq-item holds its question, the answer as next sibling and the
\* .toggle-icon.
Items == 1..NumFaq

ClosedItem == [maxHeight |-> <<>>, open |-> FALSE, icon |-> ""]

\* initFAQ click listener, lines 467-476: collapse the other open answers.
\* (closeOthersMut: the listener without that loop.)
closeOthersMut(fq, i) == fq

closeOthers(fq, i) ==
  [j \in DOMAIN fq |->
     IF fq[j].open /\ j # i
       THEN [maxHeight |-> <<>>, open |-> FALSE, icon |-> "rotate(0deg)"]
     ELSE fq[j]]

\* initFAQ click listener, lines 478-482: toggle the clicked answer; h is
\* answer.scrollHeight at the click.  A set maxHeight (`${h}px`) is truthy
\* for every h.
\* (toggleCurrentMut: the toggle without its classList.toggle("open").)
toggleCurrentMut(fq, i, h) ==
  LET isOpen == fq[i].maxHeight # <<>> IN
  [fq EXCEPT ![i] = [maxHeight |-> IF isOpen THEN <<>> ELSE <<h, "px">>,
                     open |-> fq[i].open,
                     icon |-> IF isOpen THEN "rotate(0deg)" ELSE "rotate(-45deg)"]]

toggleCurrent(fq, i, h) ==
  LET isOpen == fq[i].maxHeight # <<>> IN
  [fq EXCEPT ![i] = [maxHeight |-> IF isOpen THEN <<>> ELSE <<h, "px">>,
                     open |-> ~fq[i].open,
                     icon |-> IF isOpen THEN "rotate(0deg)" ELSE "rotate(-45deg)"]]

\* click on the .faq-question of item i
FaqClick ==
  /\ pc = "ready"
  /\ "F.faq" \in wired
  /\ \E i \in DOMAIN faq, h \in 0..MaxHeight :
       /\ faq' = toggleCurrent(closeOthers(faq, i), i, h)
       /\ lastTarget' = i
  /\ lastEvent' = "faqClick"
  /\ UNCHANGED <<pc, present, wired, faults, menuVars, marqueeVars, progressVars, formVars,
                 revealVars, galleryVars, memberVars>>

\* ======================================================== frames, visibility
\* visibilitychange: document.hidden becomes h; the controller's listener,
\* then initLogoSlider's.
VisibilityChange ==
  /\ pc = "ready"
  /\ \E h \in BOOLEAN :
       /\ hidden' = h
       /\ LET m1 == IF "C.marquee" \in wired THEN LogoSliderVisibility(MarqueeState, h)
                    ELSE MarqueeState
              m2 == IF "F.marquee" \in wired THEN logoVisibility(m1, h) ELSE m1
          IN /\ Count(m2.q, "Cold") <= MaxLeaked
             /\ SetMarquee(m2)
       /\ lastEvent' = IF h THEN "hidden" ELSE "visible"
       /\ lastTarget' = 0
  /\ UNCHANGED <<pc, present, wired, faults, W, menuVars, progressVars, formVars, faq, revealVars, galleryVars, memberVars>>

\* One animation frame of a visible page: the marquee's callbacks and the
\* animateCount callbacks of the progress bars.
AnimationFrame ==
  /\ ~hidden
  /\ rafQueue # <<>> \/ \E b \in DOMAIN bar : bar[b].rPending
  /\ SetMarquee(RunFrame(rafQueue, [MarqueeState EXCEPT !.q = <<>>]))
  /\ bar' = [b \in DOMAIN bar |-> IF bar[b].rPending THEN animateCount(bar[b]) ELSE bar[b]]
  /\ lastEvent' = "frame"
  /\ lastTarget' = 0
  /\ UNCHANGED <<pc, present, wired, faults, hidden, W, menuVars, scrollTimeout, formVars, faq, revealVars, galleryVars, memberVars>>

\* ======================================================== scroll reveal
\* The elements that match CONFIG.selectors.animations.elements (lines 24-25)
\* and the selector of line 514, which are the same selector.
RevealEls == DOMAIN inView

\* initAnimations (lines 200-212) and initScrollAnimations (lines 513-529):
\* every element gets "fade-in-hidden" (its animation type and delay class
\* play no part in the reveal) and is observed by the new observer.
fadeInHidden(cl) == [e \in DOMAIN cl |-> cl[e] \cup {"fade-in-hidden"}]

\* ScrollAnimationController.handleIntersection (lines 191-198), one entry,
\* on r = [classList, observing].
ScrollAnimationEntryMut(entry, r) ==
  IF entry.isIntersecting
    THEN [r EXCEPT !.classList[entry.target] = @ \cup {"fade-in-visible"}]
  ELSE r

ScrollAnimationEntry(entry, r) ==
  IF entry.isIntersecting
    THEN [r EXCEPT !.classList[entry.target] = @ \cup {"fade-in-visible"},
                   !.observing["C"] = @ \ {entry.target}]
  ELSE r

RECURSIVE ScrollAnimationHandleIntersection(_, _)
ScrollAnimationHandleIntersection(es, r) ==
  IF es = <<>> THEN r
  ELSE ScrollAnimationHandleIntersection(Tail(es), ScrollAnimationEntry(Head(es), r))

\* The observer callback of initScrollAnimations (lines 504-511), one entry.
scrollAnimationsEntry(entry, r) ==
  IF entry.isIntersecting
    THEN [r EXCEPT !.classList[entry.target] = @ \cup {"fade-in-visible"},
                   !.observing["F"] = @ \ {entry.target}]
  ELSE r

RECURSIVE scrollAnimationsCallback(_, _)
scrollAnimationsCallback(es, r) ==
  IF es = <<>> THEN r
  ELSE scrollAnimationsCallback(Tail(es), scrollAnimationsEntry(Head(es), r))

\* The browser's intersection observation of one frame: an observer queues
\* an entry for each of its targets whose isIntersecting differs from the
\* one it queued last (a new target always gets a first entry).
Status(b) == IF b THEN "in" ELSE "out"

Changed(o) == {e \in observing[o] : previous[o][e] # Status(inView[e])}

NewEntries(o) ==
  LET IsChanged(e) == e \in Changed(o)
      all == [e \in 1..Cardinality(RevealEls) |-> e]
      ch == SelectSeq(all, IsChanged)
  IN [k \in 1..Len(ch) |-> [target |-> ch[k], isIntersecting |-> inView[ch[k]]]]

\* The page scrolls or is resized: one element enters or leaves the viewport.
ViewportChange ==
  /\ \E e \in RevealEls : inView' = [inView EXCEPT ![e] = ~@]
  /\ lastEvent' = "viewport"
  /\ lastTarget' = 0
  /\ UNCHANGED <<pc, present, wired, faults, menuVars, marqueeVars, progressVars, formVars, faq,
                 classList, observing, previous, queued, galleryVars, memberVars>>

ObserveFrame ==
  /\ \E o \in DOMAIN observing : Changed(o) # {}
  /\ \A o \in DOMAIN observing : Len(queued[o]) + Cardinality(Changed(o)) <= MaxQueued
  /\ queued' = [o \in DOMAIN queued |-> queued[o] \o NewEntries(o)]
  /\ previous' = [o \in DOMAIN previous |->
                    [e \in RevealEls |-> IF e \in Changed(o) THEN Status(inView[e])
                                         ELSE previous[o][e]]]
  /\ lastEvent' = "observe"
  /\ lastTarget' = 0
  /\ UNCHANGED <<pc, present, wired, faults, menuVars, marqueeVars, progressVars, formVars, faq,
                 inView, classList, observing, galleryVars, memberVars>>

\* The task that notifies the observers, in the order of their creation:
\* the controller's callback with its entries, then initScrollAnimations'.
NotifyObservers ==
  /\ \E o \in DOMAIN queued : queued[o] # <<>>
  /\ LET r0 == [classList |-> classList, observing |-> observing]
         r1 == ScrollAnimationHandleIntersection(queued["C"], r0)
         r2 == scrollAnimationsCallback(queued["F"], r1)
     IN /\ classList' = r2.classList
        /\ observing' = r2.observing
  /\ queued' = [o \in DOMAIN queued |-> <<>>]
  /\ lastEvent' = "intersect"
  /\ lastTarget' = 0
  /\ UNCHANGED <<pc, present, wired, faults, menuVars, marqueeVars, progressVars, formVars, faq,
                 inView, previous, galleryVars, memberVars>>

\* ======================================================== gallery filter
\* dataset.filter of the .filter buttons, in document order, and the
\* values dataset.category of a .gallery-item ranges over.
Filters == <<"all", "cat1", "cat2">>
Categories == {"cat1", "cat2", "cat3"}

\* filterGallery (lines 553-560) on the style.display of the items.
filterGalleryMut(filterValue, d) ==
  [item \in DOMAIN d |-> IF category[item] = filterValue THEN "block" ELSE "none"]

filterGallery(filterValue, d) ==
  [item \in DOMAIN d |->
     LET show == filterValue = "all" \/ category[item] = filterValue
     IN IF show THEN "block" ELSE "none"]

\* click inside the container of the buttons (lines 564-572); t is the
\* button e.target.closest(".filter") finds, 0 when it finds none.
FilterClick ==
  /\ "F.gallery" \in wired
  /\ \E t \in 0..Len(Filters) :
       /\ IF t = 0 THEN UNCHANGED <<active, display, lastFilter>>
          ELSE /\ active' = (active \ (1..Len(Filters))) \cup {t}
               /\ display' = filterGallery(Filters[t], display)
               /\ lastFilter' = t
       /\ lastTarget' = t
  /\ lastEvent' = "filterClick"
  /\ UNCHANGED <<pc, present, wired, faults, menuVars, marqueeVars, progressVars, formVars, faq,
                 revealVars, category, memberVars>>

\* ======================================================== member photo
DefaultSrc == <<"default">>     \* the src attribute the document gives the profile image

\* the template literal of line 673
selectedImageMut(idx) == <<"Images/Member/members_photo_", idx, ".jpg">>

selectedImage(idx) == <<"Images/Member/members_photo_", idx + 1, ".jpg">>

\* memberHandler.initMemberPage (lines 679-684)
initMemberPage(P, st, src) ==
  IF "profileImg" \in P /\ st # <<>> THEN st[1] ELSE src

\* the top-level statement of lines 687-689: initIndex registers the click
\* listeners of the photo entries, initMemberPage sets the image source.
memberTopLevel(P, st, src) ==
  IF "aboutCardContainer" \in P THEN [w |-> {"T.member"}, src |-> src]
  ELSE [w |-> {}, src |-> initMemberPage(P, st, src)]

\* click on the photo entry of index idx (lines 670-675)
PhotoClick ==
  /\ "T.member" \in wired
  /\ \E idx \in 0..(NumPhotos - 1) :
       /\ storage' = <<selectedImage(idx)>>
       /\ lastClicked' = idx
       /\ lastTarget' = idx + 1
  /\ lastEvent' = "photoClick"
  /\ UNCHANGED <<pc, present, wired, faults, menuVars, marqueeVars, progressVars, formVars, faq,
                 revealVars, galleryVars, imgSrc>>

MemberPages ==
  {E \cup M : E \in SUBSET {"aboutCardContainer", "profileImg"}, M \in {{}, MenuEls}}

\* The browser loads a page of the site and evaluates the script on it;
\* localStorage outlives the page.  Of the other features the pages hold
\* at most the menu, and the state of all of them stays that of a fresh load.
Navigate ==
  /\ \E P \in MemberPages :
       /\ present' = P
       /\ wired' = {"T.scroll"} \cup memberTopLevel(P, storage, DefaultSrc).w
       /\ imgSrc' = memberTopLevel(P, storage, DefaultSrc).src
  /\ pc' = "loaded"
  /\ faults' = {}
  /\ lastEvent' = "script"
  /\ lastTarget' = 0
  /\ UNCHANGED <<menuVars, marqueeVars, progressVars, formVars, faq,
                 revealVars, galleryVars, storage, lastClicked>>

\* ======================================================== page load
\* First DOMContentLoaded listener (lines 360-366): the five controllers.
InputListeners(p) ==
  IF "contactForm" \in p THEN {inputListener(f) : f \in FieldSet \cap p} ELSE {}

DOMContentLoaded1 ==
  /\ pc = "loaded"
  /\ pc' = "dcl1"
  /\ wired' = wired \cup MobileMenuController(present)
                    \cup (IF "logos" \in present THEN {"C.marquee"} ELSE {})
                    \cup {"C.reveal"}
                    \cup (IF "contactForm" \in present THEN {"C.form"} ELSE {})
                    \cup InputListeners(present)
                    \cup {"C.progress"}
  /\ IF "logos" \in present THEN SetMarquee(LogoSliderInit(MarqueeState))
     ELSE UNCHANGED <<copies, thisScrollAmount, scrollAmount, isAnimating,
                      halfWidth, transform, rafQueue>>
  /\ bar' = [b \in DOMAIN bar |-> [bar[b] EXCEPT !.observed = TRUE]]
  /\ classList' = fadeInHidden(classList)
  /\ observing' = [observing EXCEPT !["C"] = RevealEls]
  /\ lastEvent' = "DOMContentLoaded"
  /\ lastTarget' = 0
  /\ UNCHANGED <<present, faults, hidden, W, menuVars, scrollTimeout, formVars, faq,
                 inView, previous, queued, galleryVars, memberVars>>

\* What the init functions after initMobileMenu register (lines 581-584).
initRest(p) ==
  (IF "logos" \in p THEN {"F.marquee"} ELSE {})
  \cup (IF "faqSection" \in p THEN {"F.faq"} ELSE {})
  \cup {"F.reveal"}
  \cup (IF "filters" \in p /\ "galleryItems" \in p THEN {"F.gallery"} ELSE {})

\* Second DOMContentLoaded listener (lines 579-585): a throw of
\* initMobileMenu ends the listener before the other four init functions.
DOMContentLoaded2 ==
  /\ pc = "dcl1"
  /\ pc' = "ready"
  /\ LET r == initMobileMenu(present) IN
     /\ wired' = wired \cup r.w \cup (IF r.thrown THEN {} ELSE initRest(present))
     /\ faults' = IF r.thrown THEN faults \cup {"initMobileMenu"} ELSE faults
     /\ IF ~r.thrown /\ "logos" \in present
          THEN SetMarquee(initLogoSlider(MarqueeState))
        ELSE UNCHANGED <<copies, thisScrollAmount, scrollAmount, isAnimating,
                         halfWidth, transform, rafQueue>>
     /\ classList' = IF r.thrown THEN classList ELSE fadeInHidden(classList)
     /\ observing' = IF r.thrown THEN observing ELSE [observing EXCEPT !["F"] = RevealEls]
  /\ lastEvent' = "DOMContentLoaded"
  /\ lastTarget' = 0
  /\ UNCHANGED <<present, hidden, W, menuVars, progressVars, formVars, faq,
                 inView, previous, queued, galleryVars, memberVars>>

\* ======================================================== specifications
\* The state after the script was evaluated, for a document holding the
\* elements P, hidden or not, with progress bars B.  The scroll listener is
\* registered always; the top-level submit listener only when #contactForm
\* was already parsed when the script ran (script placed after the form).
LoadedPage(P, h, w, B) ==
  /\ pc = "loaded"
  /\ present = P
  /\ wired \in {{"T.scroll"} \cup t \cup memberTopLevel(P, <<>>, DefaultSrc).w :
                  t \in (IF "contactForm" \in P THEN {{}, {"T.submit"}} ELSE {{}})}
  /\ faults = {}
  /\ lastEvent = "script"
  /\ lastTarget = 0
  /\ menuOpen = FALSE
  /\ overlayOpen = FALSE
  /\ hidden = h
  /\ W = w
  /\ copies = 1
  /\ thisScrollAmount = 0
  /\ scrollAmount = 0
  /\ isAnimating = FALSE
  /\ halfWidth = 0
  /\ transform = <<>>
  /\ rafQueue = <<>>
  /\ bar = B
  /\ scrollTimeout = "null"
  /\ value = [f \in FieldSet |-> <<>>]
  /\ termsChecked = FALSE
  /\ err = [f \in FieldSet |-> <<>>]
  /\ termsErr = <<>>
  /\ timeout = [f \in FieldSet |-> <<>>]
  /\ sinceInput = [f \in FieldSet |-> -1]
  /\ validations = [f \in FieldSet |-> 0]
  /\ lastResult = [f \in FieldSet |-> "none"]
  /\ submitFormCalled = FALSE
  /\ faq = IF "faqSection" \in P THEN [i \in Items |-> ClosedItem] ELSE <<>>

\* localStorage as earlier visits left it (st), and the profile image of a
\* page holding the elements P after the script's top-level statement.
LoadedMember(P, st) ==
  /\ storage = st
  /\ imgSrc = memberTopLevel(P, st, DefaultSrc).src
  /\ lastClicked = -1

\* The reveal elements, none of them with a fade-in class or observed yet;
\* v tells which of them are in the viewport.
LoadedReveal(v) ==
  /\ inView = v
  /\ classList = [e \in DOMAIN v |-> {}]
  /\ observing = [o \in {"C", "F"} |-> {}]
  /\ previous = [o \in {"C", "F"} |-> [e \in DOMAIN v |-> "none"]]
  /\ queued = [o \in {"C", "F"} |-> <<>>]

\* The gallery items with their categories c, the buttons A marked
\* "filter-active" by the document.
LoadedGallery(c, A) ==
  /\ category = c
  /\ active = A
  /\ display = [i \in DOMAIN c |-> ""]
  /\ lastFilter = 0

Loaded(P, h, w, B) ==
  /\ LoadedPage(P, h, w, B)
  /\ LoadedMember(P, <<>>)
  /\ LoadedReveal(<<>>)
  /\ LoadedGallery(IF "galleryItems" \in P THEN [i \in 1..NumItems |-> "cat1"] ELSE <<>>,
                   IF "filters" \in P THEN {1} ELSE {})

NoBars == [b \in {} |-> 0]

PageEls == {"logos", "faqSection", "filters", "galleryItems", "contactForm"}

\* Menu and page load: any subset of the menu elements and of the other
\* features' elements.
Init ==
  \E M \in SUBSET MenuEls, O \in SUBSET PageEls :
    Loaded(M \cup O \cup (IF "contactForm" \in O THEN FieldSet \cup {"terms"} ELSE {}),
           FALSE, 1, NoBars)

Next == DOMContentLoaded1 \/ DOMContentLoaded2 \/ ClickBar \/ ClickOverlay \/ ClickClose

Spec == Init /\ [][Next]_vars

\* Marquee: #logos with or without the menu, page hidden or visible at load.
InitMarquee ==
  \E P \in {MenuEls \cup {"logos"}, {"logos"}}, h \in BOOLEAN, w \in 1..MaxWidth :
    Loaded(P, h, w, NoBars)

NextMarquee == DOMContentLoaded1 \/ DOMContentLoaded2 \/ VisibilityChange \/ AnimationFrame

SpecMarquee == InitMarquee /\ [][NextMarquee]_vars

\* Progress bars: the bars with any target and any of their children.
InitProgress ==
  \E B \in [Bars -> {NewBar(T, k) : T \in Targets, k \in SUBSET {"fill", "text"}}] :
    Loaded(MenuEls, FALSE, 1, B)

NextProgress ==
  \/ DOMContentLoaded1 \/ DOMContentLoaded2
  \/ ProgressIntersect \/ IntervalTick \/ Scroll \/ ScrollTimer \/ AnimationFrame

SpecProgress == InitProgress /\ [][NextProgress]_vars

\* The browser runs the callback of a set interval again and again, and the
\* requested animation frames of a visible page.
SpecProgressFair ==
  SpecProgress /\ WF_vars(IntervalTick) /\ WF_vars(AnimationFrame)

\* Contact form with its four inputs and the terms checkbox.
InitForm == Loaded(MenuEls \cup {"contactForm", "terms"} \cup FieldSet, FALSE, 1, NoBars)

\* Submission: the debounce timers that input events set are still counting.
NextForm ==
  \/ DOMContentLoaded1 \/ DOMContentLoaded2
  \/ InputEvent \/ ToggleTerms \/ Submit

SpecForm == InitForm /\ [][NextForm]_vars

\* Debounced validation, with the clock: a form holding #name, #phone and #email.
InitDebounce ==
  Loaded(MenuEls \cup {"contactForm", "name", "phone", "email"}, FALSE, 1, NoBars)

NextDebounce ==
  \/ DOMContentLoaded1 \/ DOMContentLoaded2
  \/ InputEvent \/ Tick \/ DebounceFire \/ Submit

SpecDebounce == InitDebounce /\ [][NextDebounce]_vars

\* FAQ section, with any subset of the menu elements.
InitFAQ == \E M \in SUBSET MenuEls : Loaded(M \cup {"faqSection"}, FALSE, 1, NoBars)

NextFAQ == DOMContentLoaded1 \/ DOMContentLoaded2 \/ FaqClick

SpecFAQ == InitFAQ /\ [][NextFAQ]_vars

\* Scroll reveal: the reveal elements, in or out of the viewport at load,
\* with the menu (both observers) or without it (the controller's only).
InitReveal ==
  \E P \in {MenuEls, {}}, v \in [1..NumReveal -> BOOLEAN] :
    /\ LoadedPage(P, FALSE, 1, NoBars)
    /\ LoadedMember(P, <<>>)
    /\ LoadedReveal(v)
    /\ LoadedGallery(<<>>, {})

NextReveal ==
  \/ DOMContentLoaded1 \/ DOMContentLoaded2
  \/ ViewportChange \/ ObserveFrame \/ NotifyObservers

SpecReveal == InitReveal /\ [][NextReveal]_vars

\* Gallery: items of any category, any buttons marked active by the document.
InitGallery ==
  \E c \in [1..NumItems -> Categories], A \in SUBSET (1..Len(Filters)) :
    /\ LoadedPage(MenuEls \cup {"filters", "galleryItems"}, FALSE, 1, NoBars)
    /\ LoadedMember({}, <<>>)
    /\ LoadedReveal(<<>>)
    /\ LoadedGallery(c, A)

NextGallery == DOMContentLoaded1 \/ DOMContentLoaded2 \/ FilterClick

SpecGallery == InitGallery /\ [][NextGallery]_vars

\* Member photo: the listing page, the detail page and the other pages,
\* with whatever an earlier visit stored.
InitMember ==
  \E P \in MemberPages, st \in {<<>>} \cup {<<selectedImage(i)>> : i \in 0..(NumPhotos - 1)} :
    /\ LoadedPage(P, FALSE, 1, NoBars)
    /\ LoadedMember(P, st)
    /\ LoadedReveal(<<>>)
    /\ LoadedGallery(<<>>, {})

NextMember == DOMContentLoaded1 \/ DOMContentLoaded2 \/ PhotoClick \/ Navigate

SpecMember == InitMember /\ [][NextMember]_vars

\* ======================================================== properties
AllMenuPresent == MenuEls \subseteq present

\* C1: with both DOMContentLoaded listeners run and all four menu elements
\* present, one click on the toggle flips the panel and the overlay exactly
\* once (closed -> open, open -> closed).
C1_OneClickFlipsOnce ==
  [][(pc = "ready" /\ AllMenuPresent /\ lastEvent' = "clickBar")
       => (menuOpen' = ~menuOpen /\ overlayOpen' = ~overlayOpen)]_vars

\* C2: from menu closed and overlay hidden, in every reachable state the
\* panel carries "open" iff the overlay carries "overlay-open", and after an
\* overlay click or a close click both are closed.
C2_LockStep ==
  ("menu" \in present /\ "overlay" \in present) =>
    /\ menuOpen <=> overlayOpen
    /\ lastEvent \in {"clickOverlay", "clickClose"} => (~menuOpen /\ ~overlayOpen)

C2_Witness == menuOpen /\ overlayOpen /\ lastEvent = "clickBar"

\* C3: the marquee never has more than one outstanding animation-frame
\* request on its container, and after the page became hidden none is pending.
C3_SingleFrameRequest ==
  /\ Len(rafQueue) <= 1
  /\ lastEvent = "hidden" => rafQueue = <<>>

StrictlyIncreasing(l) == \A i \in 1..(Len(l) - 1) : l[i] < l[i + 1]

CountSequence(l, T, done) ==
  /\ StrictlyIncreasing(l)
  /\ \A i \in 1..Len(l) : l[i] <= T
  /\ (done /\ l # <<>>) => l[Len(l)] = T

\* C4: for every bar with target T, the values one counting animation writes
\* to the bar's text are strictly increasing, never exceed T, and the last
\* one is exactly T.
C4_CountSequence ==
  \A b \in DOMAIN bar :
    /\ CountSequence(bar[b].iLog, bar[b].target, ~bar[b].iActive)
    /\ CountSequence(bar[b].rLog, bar[b].target, ~bar[b].rPending)

\* C5: each bar starts its counting animation at most once, whichever of the
\* observer-based and the scroll-based variant triggered it first.
C5_StartsOnce ==
  \A b \in DOMAIN bar :
    ~((bar[b].iActive \/ bar[b].iLog # <<>>) /\ bar[b].rLog # <<>>)

Shown(e, msg) == e # <<>> /\ e[1].text = msg /\ e[1].display = "block"

\* C6: on every submit each configured field is validated, and every field
\* whose value fails its rule has its error message displayed.
C6_AllErrorsShown ==
  lastEvent = "submit" =>
    \A f \in FieldSet \cap present :
      ~regexTest(f, value[f]) => Shown(err[f], message(f))

FeaturesWired ==
  /\ "logos" \in present => wired \cap {"C.marquee", "F.marquee"} # {}
  /\ "faqSection" \in present => "F.faq" \in wired
  /\ wired \cap {"C.reveal", "F.reveal"} # {}
  /\ ("filters" \in present /\ "galleryItems" \in present) => "F.gallery" \in wired
  /\ "contactForm" \in present => "C.form" \in wired

\* C7: when elements of a feature are missing, initialisation and event
\* handling throw nothing and every other feature whose elements are present
\* is wired.
C7_MissingElementsHarmless ==
  /\ faults = {}
  /\ pc = "ready" => FeaturesWired

\* C8: on every submit with #terms unchecked, "Please accept the terms" is
\* displayed next to the checkbox and submitForm is not invoked.
C8_TermsRequired ==
  (lastEvent = "submit" /\ ~termsChecked) =>
    /\ Shown(termsErr, "Please accept the terms")
    /\ ~submitFormCalled

\* C9: with both DOMContentLoaded listeners run and a #logos container of
\* original width W, the container holds exactly two copies: the track width
\* is 2W.
C9_TwoCopies ==
  (pc = "ready" /\ "logos" \in present) =>
    (copies = 2 /\ scrollWidth(MarqueeState) = 2 * W)

OpenItems == {i \in DOMAIN faq : faq[i].open \/ faq[i].maxHeight # <<>>}

\* C10: starting with every answer closed, after any sequence of clicks on
\* question rows at most one answer carries "open" or a set max-height.
C10_AtMostOneOpen == Cardinality(OpenItems) <= 1

C10_Witness ==
  \E i, j \in DOMAIN faq :
    /\ i # j
    /\ faq[i].open /\ faq[i].maxHeight # <<>>
    /\ ~faq[j].open /\ faq[j].icon = "rotate(0deg)"

ItemClosed(r) == ~r.open /\ r.maxHeight = <<>>

\* C11: a click on the question of a closed answer leaves exactly that answer
\* open with its icon at -45deg; a click on the question of the open answer
\* collapses it (max-height cleared, "open" removed, icon at 0deg) and leaves
\* no answer open.
C11_ClickTogglesAnswer ==
  [][lastEvent' = "faqClick" =>
       LET i == lastTarget' IN
       /\ ItemClosed(faq[i]) =>
            /\ faq'[i].open /\ faq'[i].maxHeight # <<>>
            /\ faq'[i].icon = "rotate(-45deg)"
            /\ {j \in DOMAIN faq : faq'[j].open \/ faq'[j].maxHeight # <<>>} = {i}
       /\ ~ItemClosed(faq[i]) =>
            /\ ItemClosed(faq'[i])
            /\ faq'[i].icon = "rotate(0deg)"
            /\ {j \in DOMAIN faq : faq'[j].open \/ faq'[j].maxHeight # <<>>} = {}]_vars

C11_Witness ==
  /\ lastEvent = "faqClick"
  /\ ItemClosed(faq[lastTarget])
  /\ faq[lastTarget].icon = "rotate(0deg)"
  /\ OpenItems = {}

\* C12: with half track width H > 0 and speed 1, between frame steps the
\* running offset satisfies -H < offset <= 0 (a step that brings |offset| to
\* H resets it to 0 within the step), for the offset of either implementation
\* against the half width it compares with.
C12_OffsetWithinHalfTrack ==
  /\ "C.marquee" \in wired =>
       (-scrollWidth(MarqueeState) < 2 * thisScrollAmount /\ thisScrollAmount <= 0)
  /\ "F.marquee" \in wired =>
       (-halfWidth < scrollAmount /\ scrollAmount <= 0)

C12_Witness ==
  /\ lastEvent = "frame"
  /\ "F.marquee" \in wired
  /\ halfWidth > 1
  /\ scrollAmount = 0
  /\ transform = <<-halfWidth>>

Debounced(f) == f \in present /\ inputListener(f) \in wired

\* C13: for a burst of input events on a validated field, each less than
\* 300 ms after the one before, exactly one validation runs, only after 300 ms
\* without a further input event and on the value the field then has; a field
\* never has more than one debounce timer pending.
C13_DebouncedValidation ==
  \A f \in FieldSet :
    Debounced(f) =>
      /\ Len(timeout[f]) <= 1
      /\ validations[f] <= 1
      /\ validations[f] = 1 => sinceInput[f] >= wait
      /\ (sinceInput[f] >= 0 /\ validations[f] = 0) => Len(timeout[f]) = 1
      /\ (sinceInput[f] >= 0 /\ sinceInput[f] < wait) => timeout[f] = <<wait - sinceInput[f]>>
      /\ validations[f] = 1 =>
           /\ timeout[f] = <<>>
           /\ lastResult[f] = Outcome(f, value[f])
           /\ Shown(err[f], message(f)) <=> ~regexTest(f, value[f])

\* A debounced validation of #email ran and passed while #phone's timer counts.
C13_Witness ==
  /\ lastEvent = "debounce"
  /\ validations["email"] = 1
  /\ value["email"] = <<"a", "@", "b", ".", "c">>
  /\ err["email"] # <<>> /\ err["email"][1].display = "none"
  /\ sinceInput["phone"] = TickMs

\* -------------------------------------------------------------------- C14
Revealed(cl, e) == "fade-in-visible" \in cl[e]

\* C14: an element reported as intersecting to an observer's callback carries
\* "fade-in-visible" after that callback and is no longer a target of that
\* observer; the tag appears by such a report only and is never lost; and
\* once the page is set up no observer takes a target back, so scrolling
\* away and back cannot report the element again.
C14_RevealOnce ==
  [][/\ \A e \in RevealEls : Revealed(classList, e) => Revealed(classList', e)
     /\ \A o \in DOMAIN queued : \A k \in 1..Len(queued[o]) :
          (lastEvent' = "intersect" /\ queued[o][k].isIntersecting)
            => /\ Revealed(classList', queued[o][k].target)
               /\ queued[o][k].target \notin observing'[o]
     /\ \A e \in RevealEls :
          (Revealed(classList', e) /\ ~Revealed(classList, e))
            => /\ lastEvent' = "intersect"
               /\ \E o \in DOMAIN queued : \E k \in 1..Len(queued[o]) :
                    queued[o][k].target = e /\ queued[o][k].isIntersecting
     /\ pc = "ready" => \A o \in DOMAIN observing : observing'[o] \subseteq observing[o]
    ]_vars

\* Both observers reported element 1, which has since left the viewport.
C14_Witness ==
  /\ lastEvent = "intersect"
  /\ "F.reveal" \in wired
  /\ Revealed(classList, 1)
  /\ ~inView[1]
  /\ previous["C"][1] = "in" /\ previous["F"][1] = "in"
  /\ 1 \notin observing["C"] \cup observing["F"]
  /\ 2 \in observing["C"] \cap observing["F"]

\* -------------------------------------------------------------------- C15
\* C15: right after a submit event, submitForm was invoked only if the value
\* of every one of #name, #phone, #email and #message passes its rule; with
\* at least one failing value it was not invoked.
C15_SubmitOnlyIfAllPass ==
  lastEvent = "submit" =>
    (submitFormCalled => \A f \in FieldSet : regexTest(f, value[f]))

\* A submit that invoked submitForm; validateInput ran for #phone (its error
\* element exists).
C15_Witness ==
  /\ lastEvent = "submit"
  /\ submitFormCalled
  /\ value["phone"] = <<"+", "1", "2">>
  /\ err["phone"] # <<>>

\* -------------------------------------------------------------------- C16
\* C16: once a filter button was clicked, "filter-active" is on exactly the
\* button clicked last, and a gallery item is displayed ("block") if the
\* filter value of that button is "all" or equals the item's category, and
\* hidden ("none") otherwise.
C16_LastFilterApplied ==
  lastFilter # 0 =>
    /\ active = {lastFilter}
    /\ \A item \in DOMAIN category :
         /\ (Filters[lastFilter] = "all" \/ category[item] = Filters[lastFilter])
              => display[item] = "block"
         /\ ~(Filters[lastFilter] = "all" \/ category[item] = Filters[lastFilter])
              => display[item] = "none"

\* The button of filter value "all" was clicked, which shows item 2 of a
\* category no button names; then came a click that hit no button.
C16_Witness ==
  /\ lastEvent = "filterClick"
  /\ lastTarget = 0
  /\ lastFilter = 1
  /\ category = <<"cat1", "cat3">>
  /\ display = <<"block", "block">>

\* -------------------------------------------------------------------- C17
Last(q) == q[Len(q)]

\* C17: a running interval counter leads to its timer being cleared with
\* the target as the text, a scheduled frame counter to no frame being
\* scheduled with the target as the text; a counter that stopped wrote the
\* target last, never writes again and never runs again.
C17_CountingTerminates ==
  /\ \A b \in Bars :
       bar[b].iActive ~> (~bar[b].iActive /\ bar[b].text = Pct(bar[b].target))
  /\ \A b \in Bars :
       bar[b].rPending ~> (~bar[b].rPending /\ bar[b].text = Pct(bar[b].target))
  /\ [][\A b \in Bars :
          /\ (~bar[b].iActive /\ bar[b].iLog # <<>>)
               => /\ Last(bar[b].iLog) = bar[b].target
                  /\ bar'[b].iLog = bar[b].iLog
                  /\ ~bar'[b].iActive
          /\ (~bar[b].rPending /\ bar[b].rLog # <<>>)
               => /\ Last(bar[b].rLog) = bar[b].target
                  /\ bar'[b].rLog = bar[b].rLog
                  /\ ~bar'[b].rPending]_vars

\* Both counters of a bar of target 51 have stopped: the interval counter
\* after 27 writes, the frame counter after 52.
C17_Witness ==
  /\ bar["bar1"].target = stepThreshold + 1
  /\ ~bar["bar1"].iActive /\ Len(bar["bar1"].iLog) = 27
  /\ ~bar["bar1"].rPending /\ Len(bar["bar1"].rLog) = 52
  /\ bar["bar1"].text = Pct(stepThreshold + 1)

\* -------------------------------------------------------------------- C18
\* C18: once a photo entry was clicked, the stored value is the one path
\* "Images/Member/members_photo_<i+1>.jpg" of the 0-based index i of the
\* entry clicked last; and on a detail page (a page with the profile image
\* and no listing) the image source is the stored path when there is one
\* and the source the document gave it when there is none.
C18_PhotoHandoff ==
  /\ lastClicked >= 0
       => storage = << <<"Images/Member/members_photo_", lastClicked + 1, ".jpg">> >>
  /\ ("profileImg" \in present /\ "aboutCardContainer" \notin present)
       => /\ storage # <<>> => imgSrc = storage[1]
          /\ storage = <<>> => imgSrc = DefaultSrc

\* On the detail page, loaded after entry 2 was clicked last on the listing.
C18_Witness ==
  /\ lastEvent = "script"
  /\ present = MenuEls \cup {"profileImg"}
  /\ lastClicked = 2
  /\ imgSrc = <<"Images/Member/members_photo_", 3, ".jpg">>

\* -------------------------------------------------------------------- C19
\* C19: an input that was validated, by its debounced listener or at a
\* submit, is followed by exactly one error-message element (an input never
\* has more than one), and that element is displayed ("block") if the most
\* recent validation of the input failed and hidden ("none") if it passed.
C19_OneErrorElement ==
  \A f \in FieldSet :
    /\ Len(err[f]) <= 1
    /\ lastResult[f] # "none"
         => /\ Len(err[f]) = 1
            /\ lastResult[f] = "fail" => err[f][1].display = "block"
            /\ lastResult[f] = "pass" => err[f][1].display = "none"

\* A submit found #phone failing after the debounced listener of #email had
\* validated it; #name passed at the submit.
C19_Witness ==
  /\ lastEvent = "submit"
  /\ validations["email"] = 1
  /\ lastResult["email"] = "fail" /\ err["email"][1].display = "block"
  /\ lastResult["phone"] = "fail" /\ err["phone"][1].display = "block"
  /\ lastResult["name"] = "pass" /\ err["name"][1].display = "none"

\* -------------------------------------------------------------------- C20
\* C20: from all answers closed, in every state reached by clicks on
\* question rows an answer carries class "open" exactly when its max-height
\* is set, and its icon is at -45deg exactly when the answer is open.
C20_MarkersAgree ==
  \A i \in DOMAIN faq :
    /\ faq[i].open <=> faq[i].maxHeight # <<>>
    /\ faq[i].icon = "rotate(-45deg)" <=> faq[i].open

\* Answer 1 is open with a max-height of 0px, answer 2 was collapsed by the
\* click that opened it, answer 3 was never touched.
C20_Witness ==
  /\ lastEvent = "faqClick"
  /\ lastTarget = 1
  /\ faq[1] = [maxHeight |-> <<0, "px">>, open |-> TRUE, icon |-> "rotate(-45deg)"]
  /\ faq[2] = [maxHeight |-> <<>>, open |-> FALSE, icon |-> "rotate(0deg)"]
  /\ faq[3] = ClosedItem


====
